---------------------------- MODULE Spec2Model ----------------------------
(***************************************************************************)
(* Anchor generation, IoU overlap, anchor matching and delta encoding of   *)
(* src/src/anchors.py.                                                     *)
(*                                                                         *)
(* Arrays are functions over 0..n-1 (numpy / torch indexing), 2-D arrays   *)
(* are functions of rows.  Real numbers are fixed-point integers counted   *)
(* in units of 1/One, and every division is exact on the inputs drawn, so  *)
(* the arithmetic is the arithmetic of the floating-point code on these    *)
(* inputs.  An IoU is kept as the fraction [num, den] of the two areas.    *)
(***************************************************************************)
EXTENDS Integers, Sequences, FiniteSets, TLC

VARIABLES pc, args, ret

vars == <<pc, args, ret>>

\* ----------------------------------------------------------------- bounds
MaxDim == 4
MaxStride == 2
MaxScales == 2
MaxRatios == 2
MaxCoord == 2
MaxAnchors == 2
MaxGt == 2
MaxPairs == 2

\* ------------------------------------------------------------ arithmetic
\* The real number 1 in fixed point (the "+ 1" of the pixel-inclusive areas).
One == 2

\* a / b where the quotient is an integer; no value otherwise.
ExactDiv(a, b) == CHOOSE q \in {a \div b} : q * b = a

\* The real number 0.5 in fixed point.
Half == ExactDiv(One, 2)

\* Product and quotient of two fixed-point numbers.
Mul(a, b) == ExactDiv(a * b, One)

Div(a, b) == ExactDiv(a * One, b)

\* An integer of the caller as a fixed-point number.
Real(n) == n * One

\* np.sqrt of a non-negative integer that is a perfect square, in fixed point.
Sqrt(n) == Real(CHOOSE r \in 0..n : r * r = n)

Max(a, b) == IF a >= b THEN a ELSE b

Min(a, b) == IF a <= b THEN a ELSE b

\* ----------------------------------------------------------------- arrays
Size(a) == Cardinality(DOMAIN a)

\* The array of the sequence s.
Array(s) == [i \in 0..(Len(s) - 1) |-> s[i + 1]]

\* All arrays of n elements of S.
Arrays(S, n) == [0..(n - 1) -> S]

ArraysUpTo(S, lo, hi) == UNION {Arrays(S, n) : n \in lo..hi}

\* Mutant of Arange: the count rounded down, floor(stop / step).
Arange_floor(stop, step) ==
    [i \in 0..((stop \div step) - 1) |-> i * step]

\* np.arange(0, stop, step), step > 0: ceil(stop / step) values.
Arange(stop, step) ==
    LET n == IF stop <= 0 THEN 0 ELSE (stop + step - 1) \div step
    IN  [i \in 0..(n - 1) |-> i * step]

\* Number of columns of a 2-D array (0 when it has no rows).
Cols(m) == IF Size(m) = 0 THEN 0 ELSE Size(m[0])

\* ndarray.flatten / reshape(-1) of a 2-D array, row-major.
Flatten(m) ==
    LET c == Cols(m)
    IN  [i \in 0..(Size(m) * c - 1) |-> m[i \div c][i % c]]

\* Mutant of MeshGrid: matrix ('ij') indexing, shape (len(a), len(b)).
MeshGrid_ij(a, b) ==
    <<[i \in DOMAIN a |-> [j \in DOMAIN b |-> a[i]]],
      [i \in DOMAIN a |-> [j \in DOMAIN b |-> b[j]]]>>

\* np.meshgrid(a, b) of two 1-D arrays: two arrays of shape (len(b), len(a)),
\* the first repeating a along the rows, the second repeating b along the columns.
MeshGrid(a, b) ==
    <<[i \in DOMAIN b |-> [j \in DOMAIN a |-> a[j]]],
      [i \in DOMAIN b |-> [j \in DOMAIN a |-> b[i]]]>>

\* np.stack([a, b], axis=2).reshape([-1, 2]) of two 2-D arrays of one shape.
StackReshape(a, b) ==
    LET fa == Flatten(a)
        fb == Flatten(b)
    IN  [i \in DOMAIN fa |-> <<fa[i], fb[i]>>]

\* ------------------------------------------------------- generate_anchors
generate_anchors(fmap_shape, fmap_downsampled_rate, scales, ratios, anchor_stride) ==
    LET sr == MeshGrid([i \in DOMAIN scales |-> Real(scales[i])], ratios)
        scales_f == Flatten(sr[1])
        ratios_f == Flatten(sr[2])
        heights == [q \in DOMAIN scales_f |-> Div(scales_f[q], Sqrt(ratios_f[q]))]
        widths == [q \in DOMAIN scales_f |-> Mul(scales_f[q], Sqrt(ratios_f[q]))]
        ay == Arange(fmap_shape[1], anchor_stride)
        ax == Arange(fmap_shape[2], anchor_stride)
        shifts_y1 == [i \in DOMAIN ay |-> Div(Real(ay[i]), fmap_downsampled_rate)]
        shifts_x1 == [i \in DOMAIN ax |-> Div(Real(ax[i]), fmap_downsampled_rate)]
        sxy == MeshGrid(shifts_x1, shifts_y1)
        shifts_x == sxy[1]
        shifts_y == sxy[2]
        wx == MeshGrid(widths, Flatten(shifts_x))
        hy == MeshGrid(heights, Flatten(shifts_y))
        box_widths == wx[1]
        box_centers_x == wx[2]
        box_heights == hy[1]
        box_centers_y == hy[2]
        box_centers == StackReshape(box_centers_y, box_centers_x)
        box_sizes == StackReshape(box_heights, box_widths)
    IN  [i \in DOMAIN box_centers |->
            <<box_centers[i][1] - Mul(Half, box_sizes[i][1]),
              box_centers[i][2] - Mul(Half, box_sizes[i][2]),
              box_centers[i][1] + Mul(Half, box_sizes[i][1]),
              box_centers[i][2] + Mul(Half, box_sizes[i][2])>>]

\* Inputs of the generator.
Scales == {2, 4}

Ratios == {1, 4}

GenRates == {Half, One, 2 * One}

None == [none |-> TRUE]

InitGen ==
    /\ pc = "generate_anchors"
    /\ args \in [fmap_shape : (0..MaxDim) \X (0..MaxDim),
                 fmap_downsampled_rate : GenRates,
                 scales : ArraysUpTo(Scales, 1, MaxScales),
                 ratios : ArraysUpTo(Ratios, 1, MaxRatios),
                 anchor_stride : 1..MaxStride]
    /\ ret = None

GenerateAnchors ==
    /\ pc = "generate_anchors"
    /\ ret' = generate_anchors(args.fmap_shape, args.fmap_downsampled_rate,
                               args.scales, args.ratios, args.anchor_stride)
    /\ pc' = "generated"
    /\ UNCHANGED args

NextGen == GenerateAnchors

SpecGen == InitGen /\ [][NextGen]_vars

\* ----------------------------------------------------------- calc_overlap
\* A box is the tuple of its four columns; column c of the code is b[c + 1].
\* overlaps[i][j] is the fraction num / den of intersection and union areas
\* (both in units of 1 / One^2).  The except branch of the code computes the
\* same product on the other device.
\* Mutant of intersect_areas: the right edge taken as the greater of the two.
intersect_areas_maxright(q, r) ==
    LET intersect_left == Max(q[1], r[1])
        intersect_top == Max(q[2], r[2])
        intersect_right == Max(q[3], r[3])
        intersect_bottom == Min(q[4], r[4])
    IN  Max(0, intersect_right - intersect_left + One)
            * Max(0, intersect_bottom - intersect_top + One)

intersect_areas(q, r) ==
    LET intersect_left == Max(q[1], r[1])
        intersect_top == Max(q[2], r[2])
        intersect_right == Min(q[3], r[3])
        intersect_bottom == Min(q[4], r[4])
    IN  Max(0, intersect_right - intersect_left + One)
            * Max(0, intersect_bottom - intersect_top + One)

\* Mutant of box_area: the continuous area, without the "+ 1".
box_area_continuous(b) == (b[3] - b[1]) * (b[4] - b[2])

box_area(b) == (b[3] - b[1] + One) * (b[4] - b[2] + One)

\* Mutant of calc_overlap: the union without the intersection taken off.
calc_overlap_sum(query_boxes, ref_boxes) ==
    [i \in DOMAIN query_boxes |-> [j \in DOMAIN ref_boxes |->
        [num |-> intersect_areas(query_boxes[i], ref_boxes[j]),
         den |-> box_area(query_boxes[i]) + box_area(ref_boxes[j])]]]

calc_overlap(query_boxes, ref_boxes) ==
    [i \in DOMAIN query_boxes |-> [j \in DOMAIN ref_boxes |->
        LET inter == intersect_areas(query_boxes[i], ref_boxes[j])
        IN  [num |-> inter,
             den |-> box_area(query_boxes[i]) + box_area(ref_boxes[j]) - inter]]]

\* Well-formed boxes (coord2 >= coord1 on each axis) with corners in C.
WellFormed(C) ==
    {b \in C \X C \X C \X C : b[3] >= b[1] /\ b[4] >= b[2]}

\* Shapes (n_queries, n_refs) of the overlap matrix drawn.
OverlapShapes == {<<1, 1>>, <<2, 1>>, <<1, 2>>}

InitOverlap ==
    /\ pc = "calc_overlap"
    /\ \E sh \in OverlapShapes :
          args \in [query_boxes : Arrays(WellFormed(0..MaxCoord), sh[1]),
                    ref_boxes : Arrays(WellFormed(0..MaxCoord), sh[2])]
    /\ ret = None

CalcOverlap ==
    /\ pc = "calc_overlap"
    /\ ret' = calc_overlap(args.query_boxes, args.ref_boxes)
    /\ pc' = "overlapped"
    /\ UNCHANGED args

NextOverlap == CalcOverlap

SpecOverlap == InitOverlap /\ [][NextOverlap]_vars

\* ------------------------------------------------------ calc_anchor_match
\* Comparisons of fractions with positive denominators (an IoU, a threshold).
Less(a, b) == a.num * b.den < b.num * a.den

\* Tensor.max / Tensor.argmax along one dimension, as an index into the
\* 1-D array f of fractions: the first index holding the greatest value.
ArgMax(f) ==
    CHOOSE i \in DOMAIN f :
        /\ \A k \in DOMAIN f : ~Less(f[i], f[k])
        /\ \A k \in DOMAIN f : k < i => Less(f[k], f[i])

\* Column j of a 2-D array.
Column(m, j) == [i \in DOMAIN m |-> m[i][j]]

\* gt_boxes * fmap_downsampled_rate.
Scaled(gt_boxes, rate) ==
    [j \in DOMAIN gt_boxes |-> [c \in 1..4 |-> Mul(gt_boxes[j][c], rate)]]

\* Mutant of match_labels: the last comparison turned round (> match_thresh_lo).
match_labels_above_lo(overlaps, match_thresh_hi, match_thresh_lo) ==
    LET n_refs == Cols(overlaps)
        max_ious_with_gt == [i \in DOMAIN overlaps |-> overlaps[i][ArgMax(overlaps[i])]]
        idx_closest_to_gt == [j \in 0..(n_refs - 1) |-> ArgMax(Column(overlaps, j))]
        match1 == [i \in DOMAIN overlaps |->
                      IF \E j \in DOMAIN idx_closest_to_gt : idx_closest_to_gt[j] = i
                      THEN 1 ELSE -1]
        match2 == [i \in DOMAIN overlaps |->
                      IF Less(match_thresh_hi, max_ious_with_gt[i]) THEN 1 ELSE match1[i]]
    IN  [i \in DOMAIN overlaps |->
            IF Less(match_thresh_lo, max_ious_with_gt[i]) THEN 0 ELSE match2[i]]

\* The three assignments to match, in the order of the code, starting from -1.
match_labels(overlaps, match_thresh_hi, match_thresh_lo) ==
    LET n_refs == Cols(overlaps)
        max_ious_with_gt == [i \in DOMAIN overlaps |-> overlaps[i][ArgMax(overlaps[i])]]
        idx_closest_to_gt == [j \in 0..(n_refs - 1) |-> ArgMax(Column(overlaps, j))]
        match0 == [i \in DOMAIN overlaps |-> -1]
        match1 == [i \in DOMAIN overlaps |->
                      IF \E j \in DOMAIN idx_closest_to_gt : idx_closest_to_gt[j] = i
                      THEN 1 ELSE match0[i]]
        match2 == [i \in DOMAIN overlaps |->
                      IF Less(match_thresh_hi, max_ious_with_gt[i]) THEN 1 ELSE match1[i]]
        match3 == [i \in DOMAIN overlaps |->
                      IF Less(max_ious_with_gt[i], match_thresh_lo) THEN 0 ELSE match2[i]]
    IN  match3

\* Mutant of calc_anchor_match: the two index sets taken from the conditions
\* themselves, not from the final labels.
calc_anchor_match_conditions(anchors, gt_boxes, fmap_downsampled_rate, match_thresh_hi, match_thresh_lo) ==
    LET gt == Scaled(gt_boxes, fmap_downsampled_rate)
        overlaps == calc_overlap(anchors, gt)
        assigned_gt_idx == [i \in DOMAIN anchors |-> ArgMax(overlaps[i])]
    IN  [pos_idx |-> {i \in DOMAIN anchors :
                        \/ \E j \in DOMAIN gt : ArgMax(Column(overlaps, j)) = i
                        \/ Less(match_thresh_hi, overlaps[i][assigned_gt_idx[i]])},
         neg_idx |-> {i \in DOMAIN anchors :
                        Less(overlaps[i][assigned_gt_idx[i]], match_thresh_lo)},
         assigned_gt_boxes |-> [i \in DOMAIN anchors |-> gt[assigned_gt_idx[i]]]]

\* pos_idx and neg_idx are kept as the sets of the indices they hold.
calc_anchor_match(anchors, gt_boxes, fmap_downsampled_rate, match_thresh_hi, match_thresh_lo) ==
    LET gt == Scaled(gt_boxes, fmap_downsampled_rate)
        overlaps == calc_overlap(anchors, gt)
        assigned_gt_idx == [i \in DOMAIN anchors |-> ArgMax(overlaps[i])]
        match == match_labels(overlaps, match_thresh_hi, match_thresh_lo)
    IN  [pos_idx |-> {i \in DOMAIN anchors : match[i] = 1},
         neg_idx |-> {i \in DOMAIN anchors : match[i] = 0},
         assigned_gt_boxes |-> [i \in DOMAIN anchors |-> gt[assigned_gt_idx[i]]]]

\* The default thresholds 0.7 and 0.3.
DefaultHi == [num |-> 7, den |-> 10]

DefaultLo == [num |-> 3, den |-> 10]

Thresholds == {DefaultHi, DefaultLo}

MatchRates == {One, 2 * One}

\* A box given in whole and half pixels.
Box(x1, y1, x2, y2) == <<x1, y1, x2, y2>>

\* Boxes of the matcher's inputs, in fixed point (pixels times One).
MatchBoxes ==
    { Box(0, 0, 8, 8), Box(0, 0, 8, 6), Box(12, 12, 16, 16), Box(1, 1, 1, 9) }

InitMatch ==
    /\ pc = "calc_anchor_match"
    /\ args \in [anchors : ArraysUpTo(MatchBoxes, 1, MaxAnchors),
                 gt_boxes : ArraysUpTo(MatchBoxes, 1, MaxGt),
                 fmap_downsampled_rate : MatchRates,
                 match_thresh_hi : Thresholds,
                 match_thresh_lo : Thresholds]
    /\ ret = None

CalcAnchorMatch ==
    /\ pc = "calc_anchor_match"
    /\ ret' = calc_anchor_match(args.anchors, args.gt_boxes, args.fmap_downsampled_rate,
                                args.match_thresh_hi, args.match_thresh_lo)
    /\ pc' = "matched"
    /\ UNCHANGED args

NextMatch == CalcAnchorMatch

SpecMatch == InitMatch /\ [][NextMatch]_vars

\* ------------------------------------------------------------- calc_delta
RECURSIVE GCD(_, _)
GCD(a, b) == IF b = 0 THEN a ELSE GCD(b, a % b)

Abs(a) == IF a < 0 THEN -a ELSE a

\* The quotient a / b, b > 0, as a fraction in lowest terms.
Frac(a, b) ==
    LET g == GCD(Abs(a), b)
    IN  [num |-> a \div g, den |-> b \div g]

\* A real number of the result: the fraction itself (kind "lin") or the
\* logarithm of a positive fraction (kind "log"; torch.log is not evaluated,
\* but log(1) is the number 0).
Lin(val) == [kind |-> "lin", val |-> val]

Log(val) == IF val.num = val.den THEN Lin(Frac(0, 1)) ELSE [kind |-> "log", val |-> val]

\* An element x of delta divided by a std-dev entry.
Elem(x, std) == [kind |-> x.kind, val |-> x.val, std |-> std]

\* torch.cat of 1-D arrays of one length n, given as a sequence of arrays.
Cat(vs, n) ==
    [i \in 0..(Len(vs) * n - 1) |-> vs[(i \div n) + 1][i % n]]

\* Tensor.view(rows, 4) of a flat array: row-major.
View(flat, rows) ==
    [i \in 0..(rows - 1) |-> [c \in 1..4 |-> flat[4 * i + (c - 1)]]]

calc_delta(boxes, ref_boxes, delta_std_dev) ==
    LET N == Size(boxes)
        ref_w == [i \in DOMAIN ref_boxes |-> ref_boxes[i][3] - ref_boxes[i][1]]
        ref_h == [i \in DOMAIN ref_boxes |-> ref_boxes[i][4] - ref_boxes[i][2]]
        ref_center_x == [i \in DOMAIN ref_boxes |-> ref_boxes[i][1] + Mul(Half, ref_w[i])]
        ref_center_y == [i \in DOMAIN ref_boxes |-> ref_boxes[i][2] + Mul(Half, ref_h[i])]
        w == [i \in DOMAIN boxes |-> boxes[i][3] - boxes[i][1]]
        h == [i \in DOMAIN boxes |-> boxes[i][4] - boxes[i][2]]
        center_x == [i \in DOMAIN boxes |-> boxes[i][1] + Mul(Half, w[i])]
        center_y == [i \in DOMAIN boxes |-> boxes[i][2] + Mul(Half, h[i])]
        flat == Cat(<<[i \in DOMAIN boxes |-> Lin(Frac(ref_center_x[i] - center_x[i], w[i]))],
                      [i \in DOMAIN boxes |-> Lin(Frac(ref_center_y[i] - center_y[i], h[i]))],
                      [i \in DOMAIN boxes |-> Log(Frac(ref_w[i], w[i]))],
                      [i \in DOMAIN boxes |-> Log(Frac(ref_h[i], h[i]))]>>, N)
        viewed == View(flat, N)
    IN  [i \in DOMAIN viewed |-> [c \in 1..4 |-> Elem(viewed[i][c], delta_std_dev[c])]]

\* Boxes of positive width and height, and std-dev vectors, in fixed point.
DeltaBoxes == { Box(0, 0, 8, 8), Box(2, 4, 6, 12), Box(4, 2, 16, 6) }

DeltaStdDevs == { <<One, One, One, One>>, <<One, One, 2 * One, 2 * One>> }

InitDelta ==
    /\ pc = "calc_delta"
    /\ \E n \in 1..MaxPairs :
          args \in [boxes : Arrays(DeltaBoxes, n),
                    ref_boxes : Arrays(DeltaBoxes, n),
                    delta_std_dev : DeltaStdDevs]
    /\ ret = None

CalcDelta ==
    /\ pc = "calc_delta"
    /\ ret' = calc_delta(args.boxes, args.ref_boxes, args.delta_std_dev)
    /\ pc' = "encoded"
    /\ UNCHANGED args

NextDelta == CalcDelta

SpecDelta == InitDelta /\ [][NextDelta]_vars

\* --------------------------------------------------------------- pipeline
\* Anchor Generator -> Anchor Matcher: the anchors of one feature-map
\* configuration are matched against one ground-truth box that coincides
\* with one of them, under the same downsample rate.
Init ==
    /\ pc = "generate_anchors"
    /\ args \in [fmap_shape : (1..MaxDim) \X (1..MaxDim),
                 fmap_downsampled_rate : MatchRates,
                 scales : Arrays(Scales, 1),
                 ratios : Arrays(Ratios, 1),
                 anchor_stride : 1..MaxStride]
    /\ ret = None

Match ==
    /\ pc = "generated"
    /\ \E g \in DOMAIN ret, hi \in Thresholds, lo \in Thresholds :
          /\ args' = [gen |-> args,
                      anchors |-> ret,
                      gt_boxes |-> Array(<<ret[g]>>),
                      fmap_downsampled_rate |-> args.fmap_downsampled_rate,
                      match_thresh_hi |-> hi,
                      match_thresh_lo |-> lo]
          /\ ret' = calc_anchor_match(ret, Array(<<ret[g]>>), args.fmap_downsampled_rate,
                                      hi, lo)
    /\ pc' = "matched"

Next == GenerateAnchors \/ Match

Spec == Init /\ [][Next]_vars

\* ================================================================= claims

\* C6: generate_anchors on an (H, W) feature map with stride s, n_s scales and
\* n_r ratios returns exactly ceil(H/s) * ceil(W/s) * n_s * n_r boxes, for
\* every H, W >= 0 and whatever the downsample rate.
C6_AnchorCount ==
    pc = "generated" =>
        LET s == args.anchor_stride
            ny == -((-args.fmap_shape[1]) \div s)
            nx == -((-args.fmap_shape[2]) \div s)
        IN  Size(ret) = ny * nx * Size(args.scales) * Size(args.ratios)

\* C6 witness: a generated set on a map whose sides the stride does not divide,
\* with several scale/ratio pairs and a rate other than 1.
C6_Witness ==
    /\ pc = "generated"
    /\ args.anchor_stride = 2
    /\ args.fmap_shape = <<3, 1>>
    /\ Size(args.scales) * Size(args.ratios) = 4
    /\ args.fmap_downsampled_rate = Half
    /\ Size(ret) = 8

\* C7: the box at output index i has the centre of shift position i div k
\* (row-major over the grid: y index p div n_x, x index p mod n_x) and the
\* (height, width) of scale/ratio pair i mod k, and its entries are
\* (cy - h/2, cx - w/2, cy + h/2, cx + w/2).
C7_Ordering ==
    pc = "generated" =>
        LET s == args.anchor_stride
            rate == args.fmap_downsampled_rate
            n_s == Size(args.scales)
            k == n_s * Size(args.ratios)
            n_x == -((-args.fmap_shape[2]) \div s)
        IN  \A i \in DOMAIN ret :
                LET p == i \div k
                    q == i % k
                    cy == Div(Real((p \div n_x) * s), rate)
                    cx == Div(Real((p % n_x) * s), rate)
                    scale == Real(args.scales[q % n_s])
                    root == Sqrt(args.ratios[q \div n_s])
                    h == Div(scale, root)
                    w == Mul(scale, root)
                IN  ret[i] = <<cy - Mul(Half, h), cx - Mul(Half, w),
                               cy + Mul(Half, h), cx + Mul(Half, w)>>

\* C7 witness: a grid of at least 2 x 2 positions with two scales and two
\* ratios that differ, so that position and pair order both show.
C7_Witness ==
    /\ pc = "generated"
    /\ args.fmap_shape = <<3, 2>>
    /\ args.anchor_stride = 1
    /\ args.scales = Array(<<2, 4>>)
    /\ args.ratios = Array(<<4, 1>>)
    /\ Size(ret) = 24
    /\ ret[0] # ret[1]
    /\ ret[0] # ret[4]
    /\ ret[4] # ret[8]

\* C4 (as claimed): entry [i,j] is 0 whenever the well-formed boxes i and j are
\* strictly separated on at least one axis, however small the separation.
C4_SeparatedZero ==
    pc = "overlapped" =>
        \A i \in DOMAIN args.query_boxes, j \in DOMAIN args.ref_boxes :
            LET q == args.query_boxes[i]
                r == args.ref_boxes[j]
            IN  (q[3] < r[1] \/ r[3] < q[1] \/ q[4] < r[2] \/ r[4] < q[2])
                    => ret[i][j].num = 0

\* C4 (amended): entry [i,j] is 0 whenever the well-formed boxes i and j are
\* separated by at least 1 on at least one axis (q_max + 1 <= r_min or
\* r_max + 1 <= q_min on x or on y).
C4_SeparatedByOneZero ==
    pc = "overlapped" =>
        \A i \in DOMAIN args.query_boxes, j \in DOMAIN args.ref_boxes :
            LET q == args.query_boxes[i]
                r == args.ref_boxes[j]
            IN  (\/ q[3] + One <= r[1] \/ r[3] + One <= q[1]
                 \/ q[4] + One <= r[2] \/ r[4] + One <= q[2])
                    => ret[i][j].num = 0

\* C4 witness: an overlap matrix with an entry, off the first row, whose boxes
\* are a full unit apart on x and overlap on y, beside a non-zero entry.
C4_Witness ==
    /\ pc = "overlapped"
    /\ Size(args.query_boxes) = 2
    /\ args.query_boxes[1][3] + One <= args.ref_boxes[0][1]
    /\ args.query_boxes[1][2] = args.ref_boxes[0][2]
    /\ ret[1][0].num = 0
    /\ ret[0][0].num > 0

\* C5: for every well-formed box b, the overlap of b as query box with b as
\* reference box is exactly 1 (intersection = union, union non-zero).
C5_SelfOverlapOne ==
    pc = "overlapped" =>
        \A i \in DOMAIN args.query_boxes, j \in DOMAIN args.ref_boxes :
            args.query_boxes[i] = args.ref_boxes[j]
                => ret[i][j].den > 0 /\ ret[i][j].num = ret[i][j].den

\* C5 witness: a matrix in which a box meets itself and also another box.
C5_Witness ==
    /\ pc = "overlapped"
    /\ Size(args.ref_boxes) = 2
    /\ args.query_boxes[0] = args.ref_boxes[1]
    /\ args.query_boxes[0] # args.ref_boxes[0]
    /\ ret[0][1].num = ret[0][1].den
    /\ ret[0][0].num # ret[0][0].den

\* C10: for well-formed boxes (zero width or height included) every entry is a
\* defined value in [0,1]: the union is strictly positive and
\* 0 <= intersection <= union.
C10_UnitInterval ==
    pc = "overlapped" =>
        \A i \in DOMAIN args.query_boxes, j \in DOMAIN args.ref_boxes :
            /\ ret[i][j].den > 0
            /\ 0 <= ret[i][j].num
            /\ ret[i][j].num <= ret[i][j].den

\* C10 witness: a zero-width, zero-height query box against a reference box of
\* zero width, with an overlap strictly between 0 and 1.
C10_Witness ==
    /\ pc = "overlapped"
    /\ args.query_boxes[0][1] = args.query_boxes[0][3]
    /\ args.query_boxes[0][2] = args.query_boxes[0][4]
    /\ args.ref_boxes[0][1] = args.ref_boxes[0][3]
    /\ 0 < ret[0][0].num
    /\ ret[0][0].num < ret[0][0].den

\* C1: for each ground-truth box j, the anchor with the highest IoU against j
\* (the column argmax of the overlap matrix) is in the positive index set,
\* however small that IoU is; so every ground-truth box has a positive anchor.
C1_BestMatchPositive ==
    pc = "matched" =>
        LET overlaps == calc_overlap(args.anchors,
                            Scaled(args.gt_boxes, args.fmap_downsampled_rate))
        IN  \A j \in DOMAIN args.gt_boxes :
                ArgMax(Column(overlaps, j)) \in ret.pos_idx

\* C3: the positive index set and the negative index set are disjoint.
C3_Disjoint ==
    pc = "matched" => ret.pos_idx \cap ret.neg_idx = {}

\* C3 witness: a match with both sets non-empty in which an anchor that is a
\* per-ground-truth best match has a best IoU below match_thresh_lo.
C3_Witness ==
    /\ pc = "matched"
    /\ ret.pos_idx # {}
    /\ ret.neg_idx # {}
    /\ LET overlaps == calc_overlap(args.anchors,
                            Scaled(args.gt_boxes, args.fmap_downsampled_rate))
       IN  \E j \in DOMAIN args.gt_boxes :
               LET i == ArgMax(Column(overlaps, j))
               IN  Less(overlaps[i][ArgMax(overlaps[i])], args.match_thresh_lo)

\* C9: the label rule in the stated precedence, for every pair of thresholds:
\* an anchor is positive exactly if it is a per-ground-truth best match or its
\* best IoU exceeds match_thresh_hi; it is negative exactly if it is neither and
\* its best IoU is below match_thresh_lo; every other anchor is in neither set.
C9_LabelPrecedence ==
    pc = "matched" =>
        LET overlaps == calc_overlap(args.anchors,
                            Scaled(args.gt_boxes, args.fmap_downsampled_rate))
        IN  \A i \in DOMAIN args.anchors :
                LET best == overlaps[i][ArgMax(overlaps[i])]
                    closest == \E j \in DOMAIN args.gt_boxes :
                                   ArgMax(Column(overlaps, j)) = i
                    above == Less(args.match_thresh_hi, best)
                    below == Less(best, args.match_thresh_lo)
                IN  /\ i \in ret.pos_idx <=> (closest \/ above)
                    /\ i \in ret.neg_idx <=> (~closest /\ ~above /\ below)

\* C2: for N >= 1 box pairs, element [i][c] of calc_delta's result is target c
\* of pair i alone, in the order (dx / w, dy / h, log(ref_w / w),
\* log(ref_h / h)), divided by delta_std_dev[c].
C2_RowPerPair ==
    pc = "encoded" =>
        \A i \in DOMAIN args.boxes :
            LET b == args.boxes[i]
                r == args.ref_boxes[i]
                w == b[3] - b[1]
                h == b[4] - b[2]
                ref_w == r[3] - r[1]
                ref_h == r[4] - r[2]
                dx == (r[1] + Mul(Half, ref_w)) - (b[1] + Mul(Half, w))
                dy == (r[2] + Mul(Half, ref_h)) - (b[2] + Mul(Half, h))
            IN  /\ ret[i][1] = Elem(Lin(Frac(dx, w)), args.delta_std_dev[1])
                /\ ret[i][2] = Elem(Lin(Frac(dy, h)), args.delta_std_dev[2])
                /\ ret[i][3] = Elem(Log(Frac(ref_w, w)), args.delta_std_dev[3])
                /\ ret[i][4] = Elem(Log(Frac(ref_h, h)), args.delta_std_dev[4])

\* C8: feature map 4 x 4, rate 1, scales [4], ratios [1], stride 1 gives 16
\* anchors of size 4 x 4, one centred on each grid cell; matched with the
\* default thresholds against the single ground-truth box equal to the anchor
\* of cell (2,2), the positive set is exactly that anchor's index and every
\* other anchor whose IoU with the box is below 0.3 is negative.
C8_Scenario ==
    ( /\ pc = "matched"
      /\ args.gen = [fmap_shape |-> <<4, 4>>, fmap_downsampled_rate |-> One,
                     scales |-> Array(<<4>>), ratios |-> Array(<<1>>),
                     anchor_stride |-> 1]
      /\ args.match_thresh_hi = DefaultHi
      /\ args.match_thresh_lo = DefaultLo
      /\ args.gt_boxes = Array(<<Box(0, 0, Real(4), Real(4))>>) )
    =>
        LET cell == 2 * 4 + 2
            overlaps == calc_overlap(args.anchors, args.gt_boxes)
        IN  /\ Size(args.anchors) = 16
            /\ \A i \in DOMAIN args.anchors :
                  args.anchors[i] = Box(Real(i \div 4) - Real(2), Real(i % 4) - Real(2),
                                        Real(i \div 4) + Real(2), Real(i % 4) + Real(2))
            /\ args.anchors[cell] = args.gt_boxes[0]
            /\ ret.pos_idx = {cell}
            /\ \A i \in DOMAIN args.anchors :
                  (i # cell /\ Less(overlaps[i][0], DefaultLo)) => i \in ret.neg_idx

\* C8 witness: the scenario has been run, and it leaves anchors negative and
\* anchors ignored beside the positive one.
C8_Witness ==
    /\ pc = "matched"
    /\ args.gen = [fmap_shape |-> <<4, 4>>, fmap_downsampled_rate |-> One,
                   scales |-> Array(<<4>>), ratios |-> Array(<<1>>),
                   anchor_stride |-> 1]
    /\ args.match_thresh_hi = DefaultHi
    /\ args.match_thresh_lo = DefaultLo
    /\ args.gt_boxes = Array(<<Box(0, 0, Real(4), Real(4))>>)
    /\ ret.pos_idx = {10}
    /\ ret.neg_idx # {}
    /\ ret.pos_idx \cup ret.neg_idx # DOMAIN args.anchors

=============================================================================
